---- MODULE Spec2Model ----
(***************************************************************************)
(* Model of functions/index.js: the resume / job-description matcher.      *)
(*                                                                         *)
(* A JavaScript string is a sequence of one-character strings, so that     *)
(* normalisation, splitting and the stopword test act on characters as the *)
(* code does.  A JavaScript value that reaches the handler is a record     *)
(* [t |-> its type, v |-> its characters].                                 *)
(*                                                                         *)
(* Numbers of the pipeline are kept exact: the cosine is the pair          *)
(* (num, den2) standing for num / sqrt(den2), a percentage is the fraction *)
(* n / d, and match_score is counted in hundredths.  The rounding of the   *)
(* IEEE doubles the code computes with is not modelled.                    *)
(***************************************************************************)
EXTENDS Integers, Sequences, FiniteSets

VARIABLES req, sent, ran, fn, args, ret

vars == <<req, sent, ran, fn, args, ret>>

Range(s) == {s[i] : i \in 1..Len(s)}

\* An array, its elements computed once, when it is built.
array(f) == f \o <<>>

Indices(s) == array([i \in 1..Len(s) |-> i])

(***************************************************************************)
(* STOPWORDS, lines 14-25.  The words of the string literals, in order:    *)
(***************************************************************************)
StopwordWords == {
    <<"a">>, <<"a","b","o","u","t">>, <<"a","b","o","v","e">>, <<"a","f","t","e","r">>,
    <<"a","g","a","i","n">>, <<"a","g","a","i","n","s","t">>, <<"a","l","l">>, <<"a","m">>,
    <<"a","n">>, <<"a","n","d">>, <<"a","n","y">>, <<"a","r","e">>, <<"a","s">>, <<"a","t">>,
    <<"b","e">>, <<"b","e","c","a","u","s","e">>, <<"b","e","e","n">>,
    <<"b","e","f","o","r","e">>, <<"b","e","i","n","g">>, <<"b","e","l","o","w">>,
    <<"b","e","t","w","e","e","n">>, <<"b","o","t","h">>, <<"b","u","t">>, <<"b","y">>,
    <<"c","o","u","l","d">>, <<"d","i","d">>, <<"d","o">>, <<"d","o","e","s">>,
    <<"d","o","i","n","g">>, <<"d","o","w","n">>, <<"d","u","r","i","n","g">>,
    <<"e","a","c","h">>, <<"f","e","w">>, <<"f","o","r">>, <<"f","r","o","m">>,
    <<"f","u","r","t","h","e","r">>, <<"h","a","d">>, <<"h","a","s">>, <<"h","a","v","e">>,
    <<"h","a","v","i","n","g">>, <<"h","e">>, <<"h","e","r">>, <<"h","e","r","e">>,
    <<"h","e","r","s">>, <<"h","i","m">>, <<"h","i","s">>, <<"h","o","w">>, <<"i">>,
    <<"i","f">>, <<"i","n">>, <<"i","n","t","o">>, <<"i","s">>, <<"i","t">>, <<"i","t","s">>,
    <<"i","t","s","e","l","f">>, <<"j","u","s","t">>, <<"m","e">>, <<"m","o","r","e">>,
    <<"m","o","s","t">>, <<"m","y">>, <<"m","y","s","e","l","f">>, <<"n","o">>,
    <<"n","o","r">>, <<"n","o","t">>, <<"o","f">>, <<"o","f","f">>, <<"o","n">>,
    <<"o","n","c","e">>, <<"o","n","l","y">>, <<"o","r">>, <<"o","t","h","e","r">>,
    <<"o","u","g","h","t">>, <<"o","u","r">>, <<"o","u","r","s">>,
    <<"o","u","r","s","e","l","v","e","s">>, <<"o","u","t">>, <<"o","v","e","r">>,
    <<"o","w","n">>, <<"s","a","m","e">>, <<"s","h","e">>, <<"s","h","o","u","l","d">>,
    <<"s","o">>, <<"s","o","m","e">>, <<"s","u","c","h">>, <<"t","h","a","n">>,
    <<"t","h","a","t">>, <<"t","h","e">>, <<"t","h","e","i","r">>, <<"t","h","e","i","r","s">>,
    <<"t","h","e","m">>, <<"t","h","e","m","s","e","l","v","e","s">>, <<"t","h","e","n">>,
    <<"t","h","e","r","e">>, <<"t","h","e","s","e">>, <<"t","h","e","y">>, <<"t","h","i","s">>,
    <<"t","h","o","s","e">>, <<"t","h","r","o","u","g","h">>, <<"t","o">>, <<"t","o","o">>,
    <<"u","n","d","e","r">>, <<"u","n","t","i","l">>, <<"u","p">>, <<"v","e","r","y">>,
    <<"w","a","s">>, <<"w","e">>, <<"w","e","r","e">>, <<"w","h","a","t">>,
    <<"w","h","e","n">>, <<"w","h","e","r","e">>, <<"w","h","i","c","h">>,
    <<"w","h","i","l","e">>, <<"w","h","o">>, <<"w","h","o","m">>, <<"w","h","y">>,
    <<"w","i","t","h">>, <<"w","o","u","l","d">>, <<"y","o","u">>, <<"y","o","u","r">>,
    <<"y","o","u","r","s">>, <<"y","o","u","r","s","e","l","f">>,
    <<"y","o","u","r","s","e","l","v","e","s">>
    }

(***************************************************************************)
(* `.split(",")` binds tighter than `+`: it splits only the last literal,  *)
(* and `string + array` joins the array with "," again, so the argument of *)
(* `new Set(...)` is ONE string, the comma-joined list.  A Set built from  *)
(* a string holds the string's characters.                                 *)
(***************************************************************************)
StopwordText == UNION {Range(w) : w \in StopwordWords} \cup {","}

STOPWORDS == {<<c>> : c \in StopwordText}

(***************************************************************************)
(* normalizeText, lines 30-36.  The three steps act on each character.     *)
(***************************************************************************)
UpperCase == <<"A","B","C","D","E","F","G","H","I","J","K","L","M",
               "N","O","P","Q","R","S","T","U","V","W","X","Y","Z">>

LowerCase == <<"a","b","c","d","e","f","g","h","i","j","k","l","m",
               "n","o","p","q","r","s","t","u","v","w","x","y","z">>

Digits == <<"0","1","2","3","4","5","6","7","8","9">>

Whitespace == {" ", "\t", "\n", "\r"}

\* A character outside ASCII is written by its code point.
CurlyQuotes == {"U+2018", "U+2019", "U+201C", "U+201D"}

toLowerCase(c) ==
    IF c \in Range(UpperCase)
    THEN LowerCase[CHOOSE i \in 1..26 : UpperCase[i] = c]
    ELSE c

\* [^a-z0-9\s+#\-_]
Kept == Range(LowerCase) \cup Range(Digits) \cup Whitespace \cup {"+", "#", "-", "_"}

normalizeChar(c) ==
    LET lower  == toLowerCase(c)
        quoted == IF lower \in CurlyQuotes THEN "'" ELSE lower
    IN  IF quoted \in Kept THEN quoted ELSE " "

normalizeText(text) == array([i \in 1..Len(text) |-> normalizeChar(text[i])])

(***************************************************************************)
(* normalized.split(/\s+/).filter(Boolean), line 43: the maximal runs of   *)
(* characters that are not whitespace, in order.                           *)
(***************************************************************************)
splitWords(s) ==
    LET n      == Len(s)
        isWs(i) == s[i] \in Whitespace
        starts == SelectSeq(Indices(s), LAMBDA i : ~isWs(i) /\ (i = 1 \/ isWs(i - 1)))
        ends   == SelectSeq(Indices(s), LAMBDA i : ~isWs(i) /\ (i = n \/ isWs(i + 1)))
    IN  array([k \in 1..Len(starts) |-> SubSeq(s, starts[k], ends[k])])

\* /^\d+$/
isNumber(t) == t # <<>> /\ \A i \in 1..Len(t) : t[i] \in Range(Digits)

(***************************************************************************)
(* tokenize, lines 41-52.                                                  *)
(***************************************************************************)
keepPart(t, minLen) ==
    /\ ~(Len(t) < minLen)
    /\ ~(t \in STOPWORDS)
    /\ ~isNumber(t)

tokenize(text, minLen) ==
    SelectSeq(splitWords(normalizeText(text)), LAMBDA t : keepPart(t, minLen))

(***************************************************************************)
(* buildFrequency, lines 57-63.  The object is the sequence of its         *)
(* entries <<token, count>> in property order: a key is created at the     *)
(* token's first occurrence, and no key is an array index, because         *)
(* tokenize drops the tokens made of digits.                               *)
(***************************************************************************)
firstOccurrences(s) ==
    SelectSeq(Indices(s), LAMBDA i : \A j \in 1..(i - 1) : s[j] # s[i])

occurrences(s, x) == Cardinality({i \in 1..Len(s) : s[i] = x})

buildFrequency(tokens) ==
    LET first == firstOccurrences(tokens)
    IN  array([k \in 1..Len(first) |->
            <<tokens[first[k]], occurrences(tokens, tokens[first[k]])>>])

objectKeys(freq) == array([k \in 1..Len(freq) |-> freq[k][1]])

\* freq[k] || 0
countOf(freq, k) ==
    LET at == {i \in 1..Len(freq) : freq[i][1] = k}
    IN  IF at = {} THEN 0 ELSE freq[CHOOSE i \in at : TRUE][2]

RECURSIVE sumRange(_, _, _)
sumRange(s, lo, hi) ==
    IF lo > hi THEN 0
    ELSE IF lo = hi THEN s[lo]
    ELSE LET mid == (lo + hi) \div 2
         IN  sumRange(s, lo, mid) + sumRange(s, mid + 1, hi)

sum(s) == sumRange(s, 1, Len(s))

(***************************************************************************)
(* cosineSimilarity, lines 68-82.  The result dot / (sqrt(normA) *         *)
(* sqrt(normB)) is the pair [num |-> dot, den2 |-> normA * normB]; the     *)
(* result 0 is [num |-> 0, den2 |-> 1].                                    *)
(***************************************************************************)
\* Mutant of cosineSimilarity: the norms are not square-rooted.
cosineSimilarityNoSqrt(freqA, freqB) ==
    LET keysA == objectKeys(freqA)
        keysB == SelectSeq(objectKeys(freqB), LAMBDA k : countOf(freqA, k) = 0)
        keys  == keysA \o keysB
        a     == array([i \in 1..Len(keys) |-> countOf(freqA, keys[i])])
        b     == array([i \in 1..Len(keys) |-> countOf(freqB, keys[i])])
        dot   == sum(array([i \in 1..Len(keys) |-> a[i] * b[i]]))
        normA == sum(array([i \in 1..Len(keys) |-> a[i] * a[i]]))
        normB == sum(array([i \in 1..Len(keys) |-> b[i] * b[i]]))
    IN  IF normA = 0 \/ normB = 0
        THEN [num |-> 0, den2 |-> 1]
        ELSE [num |-> dot, den2 |-> (normA * normB) * (normA * normB)]

cosineSimilarity(freqA, freqB) ==
    LET keysA == objectKeys(freqA)
        keysB == SelectSeq(objectKeys(freqB), LAMBDA k : countOf(freqA, k) = 0)
        keys  == keysA \o keysB
        a     == array([i \in 1..Len(keys) |-> countOf(freqA, keys[i])])
        b     == array([i \in 1..Len(keys) |-> countOf(freqB, keys[i])])
        dot   == sum(array([i \in 1..Len(keys) |-> a[i] * b[i]]))
        normA == sum(array([i \in 1..Len(keys) |-> a[i] * a[i]]))
        normB == sum(array([i \in 1..Len(keys) |-> b[i] * b[i]]))
    IN  IF normA = 0 \/ normB = 0
        THEN [num |-> 0, den2 |-> 1]
        ELSE [num |-> dot, den2 |-> normA * normB]

(***************************************************************************)
(* extractTopKeywords, lines 87-94.  Array.prototype.sort is stable: with  *)
(* the comparator b[1] - a[1] it puts the entries of the highest count     *)
(* first, each group of equal count in its former order.                   *)
(***************************************************************************)
maxCount(entries) ==
    IF entries = <<>> THEN 0
    ELSE CHOOSE c \in {entries[i][2] : i \in 1..Len(entries)} :
            \A i \in 1..Len(entries) : entries[i][2] <= c

RECURSIVE fromCountDown(_, _)
fromCountDown(entries, c) ==
    IF c <= 0 THEN <<>>
    ELSE SelectSeq(entries, LAMBDA e : e[2] = c) \o fromCountDown(entries, c - 1)

\* Mutant of sortByCountDesc: a sort by ascending count.
sortByCountAsc(entries) ==
    LET n == Len(entries)
        d == fromCountDown(entries, maxCount(entries))
    IN  array([i \in 1..n |-> d[n + 1 - i]])

sortByCountDesc(entries) == fromCountDown(entries, maxCount(entries))

\* s.slice(0, end)
slice(s, end) ==
    LET stop == IF end < 0 THEN Len(s) + end ELSE end
    IN  IF stop <= 0 THEN <<>>
        ELSE IF stop >= Len(s) THEN s
        ELSE SubSeq(s, 1, stop)

\* .map(([token]) => token)
tokensOf(entries) == array([k \in 1..Len(entries) |-> entries[k][1]])

\* Mutant of extractTopKeywords: slice(1, topK) in place of slice(0, topK).
extractTopKeywordsFromSecond(tokens, topK) ==
    LET top == slice(sortByCountDesc(buildFrequency(tokens)), topK)
    IN  tokensOf(IF top = <<>> THEN top ELSE Tail(top))

extractTopKeywords(tokens, topK) ==
    tokensOf(slice(sortByCountDesc(buildFrequency(tokens)), topK))

(***************************************************************************)
(* matchKeywords, lines 99-116.  A Set keeps its values in the order they  *)
(* were first added.  overlapPct is the fraction n / d.                    *)
(***************************************************************************)
newSet(list) ==
    LET first == firstOccurrences(list)
    IN  array([k \in 1..Len(first) |-> list[first[k]]])

\* Mutant of matchKeywords: the jd list is walked as it is, not as a Set.
matchKeywordsNoSet(jdKeywords, resumeKeywords) ==
    LET resumeSet == newSet(resumeKeywords)
        matched   == SelectSeq(jdKeywords, LAMBDA k : k \in Range(resumeSet))
        missing   == SelectSeq(jdKeywords, LAMBDA k : k \notin Range(resumeSet))
        jdCount   == Len(newSet(jdKeywords))
    IN  [matched     |-> matched,
         missing     |-> missing,
         jdCount     |-> jdCount,
         resumeCount |-> Len(resumeSet),
         overlapPct  |-> IF jdCount = 0
                         THEN [n |-> 0, d |-> 1]
                         ELSE [n |-> Len(matched) * 100, d |-> jdCount]]

\* Mutant of matchKeywords: the overlap is taken over the resume keywords.
matchKeywordsOverResume(jdKeywords, resumeKeywords) ==
    LET jdSet       == newSet(jdKeywords)
        resumeSet   == newSet(resumeKeywords)
        matched     == SelectSeq(jdSet, LAMBDA k : k \in Range(resumeSet))
        missing     == SelectSeq(jdSet, LAMBDA k : k \notin Range(resumeSet))
        resumeCount == Len(resumeSet)
    IN  [matched     |-> matched,
         missing     |-> missing,
         jdCount     |-> Len(jdSet),
         resumeCount |-> resumeCount,
         overlapPct  |-> IF resumeCount = 0
                         THEN [n |-> 0, d |-> 1]
                         ELSE [n |-> Len(matched) * 100, d |-> resumeCount]]

matchKeywords(jdKeywords, resumeKeywords) ==
    LET jdSet     == newSet(jdKeywords)
        resumeSet == newSet(resumeKeywords)
        matched   == SelectSeq(jdSet, LAMBDA k : k \in Range(resumeSet))
        missing   == SelectSeq(jdSet, LAMBDA k : k \notin Range(resumeSet))
        jdCount   == Len(jdSet)
    IN  [matched     |-> matched,
         missing     |-> missing,
         jdCount     |-> jdCount,
         resumeCount |-> Len(resumeSet),
         overlapPct  |-> IF jdCount = 0
                         THEN [n |-> 0, d |-> 1]
                         ELSE [n |-> Len(matched) * 100, d |-> jdCount]]

(***************************************************************************)
(* Exact arithmetic on natural numbers of any size, as sequences of digits *)
(* of base 1000, lowest first: the squares compared below do not fit a     *)
(* machine integer.                                                        *)
(***************************************************************************)
RECURSIVE big(_)
big(n) == IF n < 1000 THEN <<n>> ELSE <<n % 1000>> \o big(n \div 1000)

RECURSIVE bigCarry(_, _)
bigCarry(s, c) ==
    IF s = <<>> THEN (IF c = 0 THEN <<>> ELSE big(c))
    ELSE <<(Head(s) + c) % 1000>> \o bigCarry(Tail(s), (Head(s) + c) \div 1000)

bigMul(x, y) ==
    LET column(k) ==
            sum(array([i \in 1..Len(x) |->
                    IF k + 1 - i \in 1..Len(y) THEN x[i] * y[k + 1 - i] ELSE 0]))
    IN  bigCarry(array([k \in 1..(Len(x) + Len(y) - 1) |-> column(k)]), 0)

bigLeq(x, y) ==
    LET n      == IF Len(x) > Len(y) THEN Len(x) ELSE Len(y)
        dx(i)  == IF i <= Len(x) THEN x[i] ELSE 0
        dy(i)  == IF i <= Len(y) THEN y[i] ELSE 0
        differ == {i \in 1..n : dx(i) # dy(i)}
    IN  \/ differ = {}
        \/ LET top == CHOOSE i \in differ : \A j \in differ : j <= i
           IN  dx(top) < dy(top)

\* The largest x in lo..hi with x * sqrt(p) <= k, given that lo is one.
RECURSIVE searchQuotient(_, _, _, _)
searchQuotient(k, p, lo, hi) ==
    IF lo = hi THEN lo
    ELSE LET mid == lo + (hi - lo + 1) \div 2
         IN  IF bigLeq(bigMul(bigMul(big(mid), big(mid)), big(p)),
                       bigMul(big(k), big(k)))
             THEN searchQuotient(k, p, mid, hi)
             ELSE searchQuotient(k, p, lo, mid - 1)

\* floor(k / sqrt(p)), for k >= 0 and p >= 1
floorDivSqrt(k, p) == searchQuotient(k, p, 0, k)

(***************************************************************************)
(* The final score, lines 197-205, in hundredths:                          *)
(*   Math.round(finalScore * 100)                                          *)
(*     = floor(semanticSimilarity * 100 * 0.6 * 100                        *)
(*             + overlapPct * 0.4 * 100 + 1/2)                             *)
(* with the weights in tenths, semanticSimilarity = num / sqrt(den2) and   *)
(* overlapPct = n / d.                                                     *)
(***************************************************************************)
semanticWeight == 6

keywordWeight == 4

\* Mutant of matchScore: the two percentages are added without weights.
matchScoreUnweighted(semanticSimilarity, overlapPct) ==
    LET d    == overlapPct.d
        k    == 2 * d * 1000 * 10 * semanticSimilarity.num
        rest == 2 * 10 * 10 * overlapPct.n + d
    IN  (floorDivSqrt(k, semanticSimilarity.den2) + rest) \div (2 * d)

matchScore(semanticSimilarity, overlapPct) ==
    LET d    == overlapPct.d
        \* 2 * d * (semanticSimilarity * 100 * semanticWeight / 10 * 100)
        k    == 2 * d * 1000 * semanticWeight * semanticSimilarity.num
        \* 2 * d * (overlapPct * keywordWeight / 10 * 100 + 1/2)
        rest == 2 * 10 * keywordWeight * overlapPct.n + d
    IN  (floorDivSqrt(k, semanticSimilarity.den2) + rest) \div (2 * d)

(***************************************************************************)
(* generateFeedback, lines 121-154.  score is in hundredths.  A message is *)
(* its template with the values that fill it: the number and the list that *)
(* is joined with ", ".  The dash of the four tier messages, U+2014, is    *)
(* written "--".                                                           *)
(***************************************************************************)
message(template, number, list) ==
    [template |-> template, number |-> number, list |-> list]

text(template) == message(template, 0, <<>>)

ExcellentFit ==
    text("Excellent fit -- the resume is highly aligned with the job description.")

GoodFit ==
    text("Good fit -- candidate is a strong match with a few improvement areas.")

PartialFit ==
    text("Partial fit -- some relevant skills present but there are notable gaps.")

LowFit ==
    text("Low fit -- there are significant gaps in alignment with this role.")

NoneMissing ==
    text("No major JD keywords appear to be missing in the resume.")

Tailor ==
    text("Consider tailoring the resume by explicitly mentioning relevant tools, technologies, and responsibilities from the JD.")

Ready ==
    text("Candidate looks ready for this role. Focus the interview on depth and real projects.")

\* Mutant of tierMessage: the first threshold is exclusive.
tierMessageExclusive(score) ==
    IF score > 85 * 100 THEN ExcellentFit
    ELSE IF score >= 65 * 100 THEN GoodFit
    ELSE IF score >= 40 * 100 THEN PartialFit
    ELSE LowFit

tierMessage(score) ==
    IF score >= 85 * 100 THEN ExcellentFit
    ELSE IF score >= 65 * 100 THEN GoodFit
    ELSE IF score >= 40 * 100 THEN PartialFit
    ELSE LowFit

missingMessage(missing) ==
    IF Len(missing) > 0 /\ Len(missing) <= 8
    THEN message("Missing important keywords/skills: ${missing.join(', ')}.",
                 0, missing)
    ELSE IF Len(missing) > 8
    THEN message("Missing ${missing.length} JD keywords. Key missing skills: ${top.join(', ')}.",
                 Len(missing), slice(missing, 8))
    ELSE NoneMissing

adviceMessage(score) == IF score < 85 * 100 THEN Tailor ELSE Ready

generateFeedback(score, overlapPct, missing) ==
    <<tierMessage(score), missingMessage(missing), adviceMessage(score)>>

(***************************************************************************)
(* JavaScript values of a request body.                                    *)
(***************************************************************************)
Undefined == [t |-> "undefined", v |-> <<>>]

Null == [t |-> "null", v |-> <<>>]

string(chars) == [t |-> "string", v |-> chars]

number(digits) == [t |-> "number", v |-> digits]

\* Mutant of falsy: only a missing value is refused.
falsyOnlyUndefined(x) == x.t = "undefined"

\* !x
falsy(x) ==
    \/ x.t \in {"undefined", "null"}
    \/ x.t = "string" /\ x.v = <<>>
    \/ x.t = "number" /\ x.v = <<"0">>

\* req.body is undefined, or an object; a field it lacks reads undefined.
NoBody == [present |-> FALSE, jd_text |-> Undefined, resume_text |-> Undefined]

object(jd_text, resume_text) ==
    [present |-> TRUE, jd_text |-> jd_text, resume_text |-> resume_text]

(***************************************************************************)
(* The responses, lines 164, 169-171, 214-223 and 226-229.                 *)
(***************************************************************************)
MethodNotAllowed == [status |-> 405, body |-> [error |-> "Only POST is allowed"]]

BadRequest ==
    [status |-> 400,
     body   |-> [error |-> "Both 'jd_text' and 'resume_text' are required in the request body."]]

InternalError(details) ==
    [status |-> 500,
     body   |-> [error |-> "Internal error computing match.", details |-> details]]

Ok(body) == [status |-> 200, body |-> body]

(***************************************************************************)
(* The try block, lines 174-223.  text.toLowerCase() throws a TypeError    *)
(* when text is truthy and not a string, so the first tokenize call on     *)
(* such a value ends the block.  The result is what was thrown or the body *)
(* of the response, with the core steps called.                            *)
(***************************************************************************)
minLen == 2

jdTopK == 200

resumeTopK == 400

NotAFunction == "text.toLowerCase is not a function"

throws(jd_text, resume_text) == jd_text.t # "string" \/ resume_text.t # "string"

\* Lines 214-223, with the feedback of line 208.
responseBody(match, semanticSimilarity, score) ==
    [match_score         |-> score,
     semantic_similarity |-> semanticSimilarity,
     overlap_pct         |-> match.overlapPct,
     skills_matched      |-> match.matched,
     missing_skills      |-> match.missing,
     jd_skill_count      |-> match.jdCount,
     resume_skill_count  |-> match.resumeCount,
     feedback            |-> generateFeedback(score, match.overlapPct, match.missing)]

\* Lines 197-205.
combine(match, semanticSimilarity) ==
    responseBody(match, semanticSimilarity,
                 matchScore(semanticSimilarity, match.overlapPct))

\* Lines 179-195.
compare(jdTokens, resumeTokens) ==
    combine(matchKeywords(extractTopKeywords(jdTokens, jdTopK),
                          extractTopKeywords(resumeTokens, resumeTopK)),
            cosineSimilarity(buildFrequency(jdTokens), buildFrequency(resumeTokens)))

computeMatch(jd_text, resume_text) ==
    IF jd_text.t # "string"
    THEN [threw |-> TRUE, message |-> NotAFunction, ran |-> <<"tokenize">>]
    ELSE IF resume_text.t # "string"
    THEN [threw |-> TRUE, message |-> NotAFunction, ran |-> <<"tokenize", "tokenize">>]
    ELSE [threw |-> FALSE,
          ran   |-> <<"tokenize", "tokenize", "extractTopKeywords",
                      "extractTopKeywords", "matchKeywords", "buildFrequency",
                      "buildFrequency", "cosineSimilarity", "generateFeedback">>,
          body  |-> compare(tokenize(jd_text.v, minLen),
                            tokenize(resume_text.v, minLen))]

(***************************************************************************)
(* matchJDandResume, lines 159-232: the callback the cors middleware       *)
(* calls.  The outcome is the responses sent, in order, and the core steps *)
(* called.                                                                 *)
(***************************************************************************)
outcome(responses, steps) == [sent |-> responses, ran |-> steps]

missingInput(request) ==
    LET body == IF request.body.present THEN request.body ELSE NoBody
    IN  falsy(body.jd_text) \/ falsy(body.resume_text)

\* Lines 214 and 224-229: the end of the try block, or the catch block.
respond(try) ==
    IF try.threw
    THEN outcome(<<InternalError(try.message)>>, try.ran)
    ELSE outcome(<<Ok(try.body)>>, try.ran)

\* Mutant of handle: the wrong method response is sent without returning.
handleWithoutReturn(request) ==
    LET rest == IF missingInput(request) THEN outcome(<<BadRequest>>, <<>>)
                ELSE respond(computeMatch(request.body.jd_text,
                                          request.body.resume_text))
    IN  IF request.method # "POST"
        THEN outcome(<<MethodNotAllowed>> \o rest.sent, rest.ran)
        ELSE rest

handle(request) ==
    IF request.method # "POST" THEN outcome(<<MethodNotAllowed>>, <<>>)
    ELSE IF missingInput(request) THEN outcome(<<BadRequest>>, <<>>)
    ELSE respond(computeMatch(request.body.jd_text, request.body.resume_text))

(***************************************************************************)
(* The state.  req, sent and ran belong to one request of the handler:     *)
(* the request, the responses sent for it and the core steps called for    *)
(* it.  fn, args and ret belong to one call of a core function.            *)
(***************************************************************************)
NoRequest == [method |-> "", body |-> NoBody]

HandlerIdle == req = NoRequest /\ sent = <<>> /\ ran = <<>>

NoCall == fn = "" /\ args = <<>> /\ ret = <<>>

Returned(f) == fn = f /\ ret # <<>>

Handled == req # NoRequest

(***************************************************************************)
(* The requests: each field a value that is no text, or a text of up to    *)
(* MaxWords words of Vocabulary separated by a space; the resume may also  *)
(* be the text of resumeTopK + 1 different words "w001", "w002", ..., and *)
(* the job description its last word.                                      *)
(***************************************************************************)
MaxWords == 2

Vocabulary == {<<"p","y">>, <<"P","y">>, <<"a","w","s">>, <<"a">>}

RECURSIVE join(_)
join(words) ==
    IF words = <<>> THEN <<>>
    ELSE IF Len(words) = 1 THEN words[1]
    ELSE words[1] \o <<" ">> \o join(Tail(words))

ShortTexts == {join(ws) : ws \in UNION {[1..k -> Vocabulary] : k \in 0..MaxWords}}

LongWords == resumeTopK + 1

digitAt(n, place) == Digits[((n \div place) % 10) + 1]

longWord(n) == <<"w", digitAt(n, 100), digitAt(n, 10), digitAt(n, 1)>>

LongText ==
    array([p \in 1..(5 * LongWords - 1) |->
        IF p % 5 = 0 THEN " " ELSE longWord(((p - 1) \div 5) + 1)[p % 5]])

JdValues == {Undefined, Null, number(<<"0">>), number(<<"5">>)}
                \cup {string(t) : t \in ShortTexts \cup {longWord(LongWords)}}

ResumeValues == JdValues \cup {string(LongText)}

Requests ==
    [method : {"POST", "GET"},
     body   : {NoBody} \cup {object(j, r) : j \in JdValues, r \in ResumeValues}]

Init == HandlerIdle /\ NoCall

Respond(request, out) ==
    /\ req' = request
    /\ sent' = out.sent
    /\ ran' = out.ran
    /\ UNCHANGED <<fn, args, ret>>

\* One request is followed from its arrival to its response: the handler
\* keeps nothing from one request to the next.
RejectMethod ==
    /\ HandlerIdle
    /\ \E r \in Requests : r.method # "POST" /\ Respond(r, handle(r))

RejectMissing ==
    /\ HandlerIdle
    /\ \E r \in Requests :
        r.method = "POST" /\ missingInput(r) /\ Respond(r, handle(r))

ComputeFails ==
    /\ HandlerIdle
    /\ \E r \in Requests :
        /\ r.method = "POST" /\ ~missingInput(r)
        /\ throws(r.body.jd_text, r.body.resume_text)
        /\ Respond(r, handle(r))

ComputeMatch ==
    /\ HandlerIdle
    /\ \E r \in Requests :
        /\ r.method = "POST" /\ ~missingInput(r)
        /\ ~throws(r.body.jd_text, r.body.resume_text)
        /\ Respond(r, handle(r))

Next == RejectMethod \/ RejectMissing \/ ComputeFails \/ ComputeMatch

Spec == Init /\ [][Next]_vars

(***************************************************************************)
(* tokenize on every text of up to MaxTextLen characters.                  *)
(***************************************************************************)
MaxTextLen == 4

MaxMinLen == 2

TextChars == {"a", "t", "A", " ", "1", "!", "+"}

Texts == UNION {[1..k -> TextChars] : k \in 0..MaxTextLen}

InitTokenize ==
    /\ HandlerIdle
    /\ fn = "tokenize"
    /\ args \in [text : Texts, minLen : 1..MaxMinLen]
    /\ ret = <<>>

CallTokenize ==
    /\ fn = "tokenize"
    /\ ret = <<>>
    /\ ret' = <<tokenize(args.text, args.minLen)>>
    /\ UNCHANGED <<req, sent, ran, fn, args>>

SpecTokenize == InitTokenize /\ [][CallTokenize]_vars

(***************************************************************************)
(* matchKeywords on every two lists of up to MaxKeywords keywords.         *)
(***************************************************************************)
MaxKeywords == 3

Keywords == {<<"p","y">>, <<"a","w","s">>, <<"g","o">>}

KeywordLists == UNION {[1..k -> Keywords] : k \in 0..MaxKeywords}

InitMatch ==
    /\ HandlerIdle
    /\ fn = "matchKeywords"
    /\ args \in [jdKeywords : KeywordLists, resumeKeywords : KeywordLists]
    /\ ret = <<>>

CallMatch ==
    /\ fn = "matchKeywords"
    /\ ret = <<>>
    /\ ret' = <<matchKeywords(args.jdKeywords, args.resumeKeywords)>>
    /\ UNCHANGED <<req, sent, ran, fn, args>>

SpecMatch == InitMatch /\ [][CallMatch]_vars

(***************************************************************************)
(* extractTopKeywords on the tokens of every text of up to MaxTokens       *)
(* keywords, with every topK up to MaxTopK.                                *)
(***************************************************************************)
MaxTokens == 4

MaxTopK == 3

KeywordTexts == {join(ws) : ws \in UNION {[1..k -> Keywords] : k \in 0..MaxTokens}}

InitExtract ==
    /\ HandlerIdle
    /\ fn = "extractTopKeywords"
    /\ args \in {[tokens |-> tokenize(t, minLen), topK |-> k] :
                    t \in KeywordTexts, k \in 0..MaxTopK}
    /\ ret = <<>>

CallExtract ==
    /\ fn = "extractTopKeywords"
    /\ ret = <<>>
    /\ ret' = <<extractTopKeywords(args.tokens, args.topK)>>
    /\ UNCHANGED <<req, sent, ran, fn, args>>

SpecExtract == InitExtract /\ [][CallExtract]_vars

(***************************************************************************)
(* generateFeedback on every score within ScoreMargin hundredths of 0, of  *)
(* a threshold or of 100, with every list of up to MaxMissing keywords.    *)
(***************************************************************************)
ScoreMargin == 10

MaxMissing == 9

Marks == {0, 40 * 100, 65 * 100, 85 * 100, 100 * 100}

Scores ==
    {s \in 0..(100 * 100) :
        \E m \in Marks : s - m <= ScoreMargin /\ m - s <= ScoreMargin}

MissingLists == {array([i \in 1..n |-> longWord(i)]) : n \in 0..MaxMissing}

InitFeedback ==
    /\ HandlerIdle
    /\ fn = "generateFeedback"
    /\ args \in [score : Scores, overlapPct : {[n |-> 0, d |-> 1]},
                 missing : MissingLists]
    /\ ret = <<>>

CallFeedback ==
    /\ fn = "generateFeedback"
    /\ ret = <<>>
    /\ ret' = <<generateFeedback(args.score, args.overlapPct, args.missing)>>
    /\ UNCHANGED <<req, sent, ran, fn, args>>

SpecFeedback == InitFeedback /\ [][CallFeedback]_vars

(***************************************************************************)
(* The claims.                                                             *)
(***************************************************************************)
noDuplicates(s) == \A i, j \in 1..Len(s) : s[i] = s[j] => i = j

firstIndex(s, x) == CHOOSE i \in 1..Len(s) : s[i] = x /\ \A j \in 1..(i - 1) : s[j] # x

FalsyValues == {Undefined, Null, string(<<>>), number(<<"0">>)}

MissingField ==
    \/ ~req.body.present
    \/ req.body.jd_text \in FalsyValues
    \/ req.body.resume_text \in FalsyValues

PassesValidation == Handled /\ req.method = "POST" /\ ~MissingField

Answered(status) == Handled /\ Len(sent) = 1 /\ sent[1].status = status

ScoreFields ==
    {"match_score", "semantic_similarity", "overlap_pct", "skills_matched",
     "missing_skills", "jd_skill_count", "resume_skill_count", "feedback"}

\* C1, as stated: a request whose jd_text or resume_text is missing or falsy
\* is answered by the client error of the validation, with its fixed
\* message, and no core step is run for it.
C1_MissingInputIsBadRequest ==
    (Handled /\ MissingField) => sent = <<BadRequest>> /\ ran = <<>>

\* C1, amended: a POST request whose jd_text or resume_text is missing or
\* falsy is answered by the client error of the validation, with its fixed
\* message; any other request with such a field is answered by the wrong
\* method error; in both cases no core step is run.
C1_MissingInputOfPostIsBadRequest ==
    (Handled /\ MissingField) =>
        /\ ran = <<>>
        /\ req.method = "POST" => sent = <<BadRequest>>
        /\ req.method # "POST" => sent = <<MethodNotAllowed>>

C1_Witness ==
    /\ Handled /\ req.method = "POST" /\ req.body.present
    /\ req.body.jd_text = string(<<>>)
    /\ req.body.resume_text = string(<<"p","y">>)
    /\ sent = <<BadRequest>>

\* C2: no token returned by tokenize is a word of the stopword list.
C2_NeverEmitsStopwords ==
    Returned("tokenize") => \A i \in 1..Len(ret[1]) : ret[1][i] \notin StopwordWords

\* The distinct jd keywords of a response and the tokens of its resume.
JdKeywordsOf(body) == Range(body.skills_matched) \cup Range(body.missing_skills)

ResumeTokens == tokenize(req.body.resume_text.v, minLen)

SameText == req.body.jd_text = req.body.resume_text

PerfectMatch(body) ==
    /\ body.semantic_similarity.num > 0
    /\ body.semantic_similarity.num * body.semantic_similarity.num
            = body.semantic_similarity.den2
    /\ body.overlap_pct.n = 100 * body.overlap_pct.d
    /\ body.missing_skills = <<>>
    /\ body.match_score = 100 * 100
    /\ body.feedback[1] = ExcellentFit

\* C4, as stated: a request that passes validation with the same text as
\* jd_text and as resume_text is answered with semantic_similarity 1,
\* overlap_pct 100, no missing skill, match_score 100.00 and the excellent
\* fit message first.
C4_SameTextIsPerfectMatch ==
    (PassesValidation /\ SameText /\ req.body.resume_text.t = "string")
        => Answered(200) /\ PerfectMatch(sent[1].body)

\* C4, amended: a request that passes validation with jd_text and
\* resume_text the same string, of which tokenize keeps at least one token,
\* is answered with semantic_similarity 1 (dot * dot = normA * normB),
\* overlap_pct 100, no missing skill, match_score 100.00 and the excellent
\* fit message first.
C4_SameTextWithTokensIsPerfectMatch ==
    (/\ PassesValidation /\ SameText
     /\ req.body.resume_text.t = "string"
     /\ ResumeTokens # <<>>)
        => Answered(200) /\ PerfectMatch(sent[1].body)

C4_Witness ==
    /\ PassesValidation
    /\ req.body.jd_text = string(<<"p","y"," ","a","w","s">>)
    /\ SameText
    /\ Answered(200)
    /\ sent[1].body.match_score = 100 * 100
    /\ sent[1].body.skills_matched = << <<"p","y">>, <<"a","w","s">> >>

\* Math.round(x) is the integer r with r - 1/2 <= x < r + 1/2.  Here
\* x = 6000 * num / sqrt(den2) + 40 * n / d, the weighted sum in hundredths.
RoundsWeightedSum(body) ==
    LET sim   == body.semantic_similarity
        pct   == body.overlap_pct
        low   == 2 * pct.d * body.match_score - pct.d - 80 * pct.n
        high  == low + 2 * pct.d
        k     == 12000 * pct.d * sim.num
        sq(x) == bigMul(big(x), big(x))
    IN  /\ low <= 0 \/ bigLeq(bigMul(sq(low), big(sim.den2)), sq(k))
        /\ ~bigLeq(bigMul(sq(high), big(sim.den2)), sq(k))

C8_OneWholeOutcome ==
    Handled =>
        /\ Len(sent) = 1
        /\ \/ /\ sent[1].status \in {405, 400, 500}
              /\ DOMAIN sent[1].body \cap ScoreFields = {}
              /\ "error" \in DOMAIN sent[1].body
           \/ /\ sent[1].status = 200
              /\ DOMAIN sent[1].body = ScoreFields

C8_Witness ==
    /\ Handled /\ req.method = "POST"
    /\ req.body.jd_text = string(<<"p","y">>)
    /\ req.body.resume_text = number(<<"5">>)
    /\ sent = <<InternalError(NotAFunction)>>
    /\ ran = <<"tokenize", "tokenize">>

\* C9, as stated: in the response to a request that passes validation, a jd
\* keyword that occurs among the tokens of resume_text is in skills_matched
\* and not in missing_skills.
C9_PresentKeywordIsMatched ==
    (PassesValidation /\ Answered(200)) =>
        \A k \in JdKeywordsOf(sent[1].body) :
            k \in Range(ResumeTokens) =>
                /\ k \in Range(sent[1].body.skills_matched)
                /\ k \notin Range(sent[1].body.missing_skills)

\* C9, amended: the same, for a resume_text with at most 400 distinct
\* tokens; of a resume with more, only the 400 keywords that
\* extractTopKeywords keeps count as present.
C9_PresentKeywordOfShortResumeIsMatched ==
    (PassesValidation /\ Answered(200)) =>
        \A k \in JdKeywordsOf(sent[1].body) :
            LET present ==
                    IF Cardinality(Range(ResumeTokens)) <= 400
                    THEN k \in Range(ResumeTokens)
                    ELSE k \in Range(extractTopKeywords(ResumeTokens, 400))
            IN  present =>
                    /\ k \in Range(sent[1].body.skills_matched)
                    /\ k \notin Range(sent[1].body.missing_skills)

C9_Witness ==
    /\ PassesValidation /\ Answered(200)
    /\ req.body.jd_text = string(<<"a","w","s"," ","P","y">>)
    /\ req.body.resume_text = string(<<"p","y">>)
    /\ sent[1].body.skills_matched = << <<"p","y">> >>
    /\ sent[1].body.missing_skills = << <<"a","w","s">> >>

\* The call tokenize("at", {minLen: 2}), which returns ["at"].
C2_Input ==
    /\ Returned("tokenize")
    /\ args.text = <<"a", "t">> /\ args.minLen = 2
    /\ ret[1] = << <<"a", "t">> >>

\* C3: matched and missing together are the distinct jd keywords, they share
\* no keyword, neither lists a keyword twice, and jdCount counts them.
C3_MatchedAndMissingPartitionJd ==
    Returned("matchKeywords") =>
        LET r == ret[1]
        IN  /\ Range(r.matched) \cup Range(r.missing) = Range(args.jdKeywords)
            /\ Range(r.matched) \cap Range(r.missing) = {}
            /\ noDuplicates(r.matched)
            /\ noDuplicates(r.missing)
            /\ r.jdCount = Len(r.matched) + Len(r.missing)
            /\ r.jdCount = Cardinality(Range(args.jdKeywords))

C3_Witness ==
    /\ Returned("matchKeywords")
    /\ ~noDuplicates(args.jdKeywords)
    /\ ret[1].matched # <<>>
    /\ ret[1].missing # <<>>

EveryJdKeywordInResume == Range(args.jdKeywords) \subseteq Range(args.resumeKeywords)

\* C5, as stated: when every jd keyword is among the resume keywords,
\* overlapPct is 100.
C5_FullOverlapIs100 ==
    (Returned("matchKeywords") /\ EveryJdKeywordInResume) =>
        ret[1].overlapPct.n = 100 * ret[1].overlapPct.d

\* C5, amended: when there is at least one jd keyword and every jd keyword
\* is among the resume keywords, overlapPct is 100; with no jd keyword it
\* is 0.
C5_FullOverlapOfSomeKeywordIs100 ==
    (Returned("matchKeywords") /\ EveryJdKeywordInResume) =>
        IF args.jdKeywords # <<>>
        THEN ret[1].overlapPct.n = 100 * ret[1].overlapPct.d
        ELSE ret[1].overlapPct.n = 0

C5_Witness ==
    /\ Returned("matchKeywords")
    /\ EveryJdKeywordInResume
    /\ ~noDuplicates(args.jdKeywords)
    /\ Cardinality(Range(args.jdKeywords)) = 2
    /\ Cardinality(Range(args.resumeKeywords)) = 3
    /\ ret[1].overlapPct = [n |-> 200, d |-> 2]

\* C7: the first message of generateFeedback is the tier message of the
\* score: 85 and more excellent, 65 to below 85 good, 40 to below 65
\* partial, below 40 low; no other message of the feedback is a tier
\* message.
C7_TierByThresholds ==
    Returned("generateFeedback") =>
        LET score    == args.score
            feedback == ret[1]
        IN  /\ Len(feedback) >= 1
            /\ score >= 8500 => feedback[1] = ExcellentFit
            /\ (score >= 6500 /\ score < 8500) => feedback[1] = GoodFit
            /\ (score >= 4000 /\ score < 6500) => feedback[1] = PartialFit
            /\ score < 4000 => feedback[1] = LowFit
            /\ \A i \in 2..Len(feedback) :
                    feedback[i] \notin {ExcellentFit, GoodFit, PartialFit, LowFit}

C7_Witness ==
    /\ Returned("generateFeedback")
    /\ args.score = 8500
    /\ ret[1][1] = ExcellentFit

\* C10: extractTopKeywords returns at most topK tokens, all different, in
\* the order of descending occurrence count and, among tokens of equal
\* count, of first occurrence; they are the first topK tokens of that order.
C10_TopKeywordsOrdered ==
    Returned("extractTopKeywords") =>
        LET tokens == args.tokens
            out    == ret[1]
            before(x, y) ==
                \/ occurrences(tokens, x) > occurrences(tokens, y)
                \/ /\ occurrences(tokens, x) = occurrences(tokens, y)
                   /\ firstIndex(tokens, x) < firstIndex(tokens, y)
            distinct == Cardinality(Range(tokens))
        IN  /\ Len(out) <= args.topK
            /\ Len(out) = IF args.topK < distinct THEN args.topK ELSE distinct
            /\ Range(out) \subseteq Range(tokens)
            /\ \A i, j \in 1..Len(out) : i < j => before(out[i], out[j])
            /\ \A x \in Range(out) : \A y \in Range(tokens) \ Range(out) : before(x, y)

C10_Witness ==
    /\ Returned("extractTopKeywords")
    /\ args.tokens = << <<"g","o">>, <<"a","w","s">>, <<"p","y">>, <<"p","y">> >>
    /\ args.topK = 2
    /\ ret[1] = << <<"p","y">>, <<"g","o">> >>

====
